---- MODULE Spec2Model ----
(***************************************************************************)
(* secret-mail: per-paragraph password encryption of a letter, its URL     *)
(* transport codec, the sender's seal handler and the receiver's          *)
(* per-item decryption controller.                                        *)
(*                                                                         *)
(* JavaScript strings are sequences of code points (naturals).  Every     *)
(* JavaScript value that crosses JSON is a tagged record [t |-> ...].     *)
(* The platform primitives (PBKDF2, AES-GCM) are modelled symbolically:   *)
(* a key is the pair it was derived from, a ciphertext remembers the key, *)
(* the nonce and the plaintext bytes it was produced from, and the        *)
(* authentication tag verifies exactly when key and nonce match.          *)
(***************************************************************************)
EXTENDS Integers, Sequences, FiniteSets, TLC

(***************************************************************************)
(* Bounds                                                                  *)
(***************************************************************************)
MaxParagraphs == 2
MaxLateEdits == 1
MaxDraws == 4
MaxInFlight == 2
MaxUuids == 3
MaxPasteInFlight == 1

(***************************************************************************)
(* Text                                                                    *)
(***************************************************************************)
\* the texts the model draws its inputs from: "", " ", "h", "m", "p", "q",
\* "t" and the two-byte-per-character text "\u00e9m"
TxtEmpty == <<>>
TxtSpace == <<32>>
TxtH == <<104>>
TxtM == <<109>>
TxtP == <<112>>
TxtQ == <<113>>
TxtT == <<116>>
TxtEM == <<233, 109>>

\* the code points String.prototype.trim strips (those below U+0800)
WhiteSpace == {9, 10, 11, 12, 13, 32, 160}

RECURSIVE TrimStart(_)
TrimStart(s) ==
  IF s = <<>> THEN <<>>
  ELSE IF Head(s) \in WhiteSpace THEN TrimStart(Tail(s)) ELSE s

RECURSIVE TrimEnd(_)
TrimEnd(s) ==
  IF s = <<>> THEN <<>>
  ELSE IF s[Len(s)] \in WhiteSpace THEN TrimEnd(SubSeq(s, 1, Len(s) - 1)) ELSE s

\* String.prototype.trim
Trim(s) == TrimEnd(TrimStart(s))

\* a test for the empty string that does not trim
IsBlankUntrimmed(s) == s = <<>>

\* a gate that lets every input through
IsBlankNever(s) == FALSE

\* !s.trim()  (the empty string is the only falsy string)
IsBlank(s) == Trim(s) = <<>>

\* TextEncoder.encode: UTF-8 of a string of code points below U+0800
RECURSIVE TextEncode(_)
TextEncode(s) ==
  IF s = <<>> THEN <<>>
  ELSE LET c == Head(s)
       IN  (IF c < 128 THEN <<c>>
            ELSE <<192 + (c \div 64), 128 + (c % 64)>>) \o TextEncode(Tail(s))

\* a decoder that takes every byte for a character of its own
TextDecodeBytewise(b) == b

\* TextDecoder.decode (non-fatal): malformed sequences become U+FFFD
RECURSIVE TextDecode(_)
TextDecode(b) ==
  IF b = <<>> THEN <<>>
  ELSE LET c == Head(b)
       IN  IF c < 128 THEN <<c>> \o TextDecode(Tail(b))
           ELSE IF c >= 194 /\ c < 224 /\ Len(b) >= 2 /\ b[2] >= 128 /\ b[2] < 192
                THEN <<(c - 192) * 64 + (b[2] - 128)>> \o TextDecode(SubSeq(b, 3, Len(b)))
                ELSE <<65533>> \o TextDecode(Tail(b))

(***************************************************************************)
(* Buffers, Base64 and JavaScript values                                   *)
(***************************************************************************)
\* an ArrayBuffer of plain bytes
Bytes(b) == [kind |-> "bytes", b |-> b]

\* a JavaScript string of ordinary text
Str(s) == [t |-> "str", v |-> s]

Undefined == [t |-> "undef"]
Null == [t |-> "null"]
Num(n) == [t |-> "num", v |-> n]
Arr(a) == [t |-> "arr", v |-> a]
Obj(o) == [t |-> "obj", v |-> o]

\* result of an operation that threw / a promise that rejected
Thrown == [t |-> "throw"]

\* bufferToBase64: the string btoa yields for the buffer's bytes
bufferToBase64(buffer) == [t |-> "b64", v |-> buffer]

\* base64ToBuffer: atob throws on a string that is not Base64
base64ToBuffer(base64) ==
  IF base64.t = "b64" THEN base64.v ELSE Thrown

(***************************************************************************)
(* Key derivation and the paragraph cipher                                 *)
(***************************************************************************)
PWD_ITERATIONS == 100000

\* getKey: PBKDF2 is a deterministic function of the password bytes, the
\* salt and the iteration count
getKey(password, salt) ==
  [pw |-> TextEncode(password), salt |-> salt, iterations |-> PWD_ITERATIONS]

\* crypto.subtle.encrypt with AES-GCM under key and iv
AesGcmEncrypt(key, iv, data) == [kind |-> "gcm", key |-> key, iv |-> iv, pt |-> data]

\* encryptMessage, given the iv that getRandomValues produced
encryptMessage(message, key, iv) ==
  [iv |-> iv, ciphertext |-> AesGcmEncrypt(key, iv, TextEncode(message))]

\* a cipher whose tag does not depend on the key
decryptMessageUnkeyed(ciphertext, key, iv) ==
  IF ciphertext.kind = "gcm" /\ ciphertext.iv = iv
  THEN Str(TextDecode(ciphertext.pt))
  ELSE Thrown

\* decryptMessage: the tag verifies only under the same key and nonce;
\* otherwise crypto.subtle.decrypt rejects
decryptMessage(ciphertext, key, iv) ==
  IF ciphertext.kind = "gcm" /\ ciphertext.key = key /\ ciphertext.iv = iv
  THEN Str(TextDecode(ciphertext.pt))
  ELSE Thrown

\* the per-paragraph task of encryptParagraphs, given its random salt and iv
EncryptParagraph(p, salt, iv) ==
  LET key == getKey(p.password, salt)
      enc == encryptMessage(p.message, key, iv)
  IN  [hint |-> Str(p.hint),
       salt |-> bufferToBase64(salt),
       iv |-> bufferToBase64(enc.iv),
       ciphertext |-> bufferToBase64(enc.ciphertext)]

(***************************************************************************)
(* Transport codec                                                         *)
(***************************************************************************)
\* a serializer that also omits properties holding the empty string
RECURSIVE JsonDocDropsEmpty(_)
JsonDocDropsEmpty(x) ==
  IF x.t = "obj"
  THEN Obj([k \in {j \in DOMAIN x.v :
                     x.v[j].t # "undef" /\ x.v[j] # [t |-> "str", v |-> <<>>]}
              |-> JsonDocDropsEmpty(x.v[k])])
  ELSE IF x.t = "arr"
  THEN Arr([k \in 1..Len(x.v) |->
              IF x.v[k].t = "undef" THEN Null ELSE JsonDocDropsEmpty(x.v[k])])
  ELSE x

\* what JSON.stringify keeps of a value: object properties whose value is
\* undefined are omitted, undefined array elements become null
RECURSIVE JsonDoc(_)
JsonDoc(x) ==
  IF x.t = "obj"
  THEN Obj([k \in {j \in DOMAIN x.v : x.v[j].t # "undef"} |-> JsonDoc(x.v[k])])
  ELSE IF x.t = "arr"
  THEN Arr([k \in 1..Len(x.v) |->
              IF x.v[k].t = "undef" THEN Null ELSE JsonDoc(x.v[k])])
  ELSE x

\* JSON.stringify: the JSON text of a value
JsonStringify(x) == [t |-> "json", doc |-> JsonDoc(x)]

\* JSON.parse: throws SyntaxError on a text that is not JSON
JsonParse(text) == IF text.t = "json" THEN text.doc ELSE Thrown

\* LZString.compressToEncodedURIComponent
compressToEncodedURIComponent(text) == [t |-> "lz", text |-> text]

\* LZString.decompressFromEncodedURIComponent: a token the compressor did
\* not produce decompresses to whatever the library makes of it (null, "",
\* some text, or a fault), carried by the token as its field out
decompressFromEncodedURIComponent(token) ==
  IF token.t = "lz" THEN token.text ELSE token.out

encodeDataForURL(encryptedLetter) ==
  compressToEncodedURIComponent(JsonStringify(encryptedLetter))

\* !x for the values a decompression or a decode yields
Falsy(x) == x.t \in {"null", "undef"} \/ (x.t = "str" /\ x.v = <<>>)

\* typeof x
TypeOf(x) ==
  IF x.t \in {"obj", "arr", "null"} THEN "object"
  ELSE IF x.t \in {"str", "b64", "json"} THEN "string"
  ELSE IF x.t = "num" THEN "number"
  ELSE "undefined"

\* k in x, for a property name k that no array has: "true", "false", or
\* "throw" (TypeError) when x is not an object
HasProp(k, x) ==
  IF x.t = "obj" THEN (IF k \in DOMAIN x.v THEN "true" ELSE "false")
  ELSE IF x.t = "arr" THEN "false"
  ELSE "throw"

\* an element check that forgets the ciphertext
ItemHasFieldsNoCiphertext(item) ==
  IF HasProp("hint", item) # "true" THEN HasProp("hint", item)
  ELSE IF HasProp("salt", item) # "true" THEN HasProp("salt", item)
  ELSE HasProp("iv", item)

\* 'hint' in item && 'ciphertext' in item && 'salt' in item && 'iv' in item
ItemHasFields(item) ==
  IF HasProp("hint", item) # "true" THEN HasProp("hint", item)
  ELSE IF HasProp("ciphertext", item) # "true" THEN HasProp("ciphertext", item)
  ELSE IF HasProp("salt", item) # "true" THEN HasProp("salt", item)
  ELSE HasProp("iv", item)

\* parsed.paragraphs.every(...): stops at the first element that fails
RECURSIVE EveryItemHasFields(_)
EveryItemHasFields(a) ==
  IF a = <<>> THEN "true"
  ELSE IF ItemHasFields(Head(a)) # "true" THEN ItemHasFields(Head(a))
  ELSE EveryItemHasFields(Tail(a))

\* the structure check of decodeDataFromURL, evaluated left to right:
\* "accept", "reject" (return null) or "throw"
ValidateStructure(parsed) ==
  IF TypeOf(parsed) # "object" THEN "reject"
  ELSE IF HasProp("title", parsed) # "true"
  THEN (IF HasProp("title", parsed) = "throw" THEN "throw" ELSE "reject")
  ELSE IF HasProp("paragraphs", parsed) # "true" THEN "reject"
  ELSE IF parsed.v["paragraphs"].t # "arr" THEN "reject"
  ELSE IF EveryItemHasFields(parsed.v["paragraphs"].v) = "true" THEN "accept"
  ELSE IF EveryItemHasFields(parsed.v["paragraphs"].v) = "throw" THEN "throw"
  ELSE "reject"

\* the body of decodeDataFromURL's try block
DecodeBody(compressed) ==
  LET decompressed == decompressFromEncodedURIComponent(compressed)
  IN  IF decompressed = Thrown THEN Thrown
      ELSE IF Falsy(decompressed) THEN Null
      ELSE LET parsed == JsonParse(decompressed)
           IN  IF parsed = Thrown THEN Thrown
               ELSE IF ValidateStructure(parsed) = "throw" THEN Thrown
               ELSE IF ValidateStructure(parsed) = "reject" THEN Null
               ELSE parsed

\* a decoder without the catch
decodeDataFromURLUncaught(compressed) == DecodeBody(compressed)

\* decodeDataFromURL: whatever the try block throws is caught and becomes null
decodeDataFromURL(compressed) ==
  IF DecodeBody(compressed) = Thrown THEN Null ELSE DecodeBody(compressed)

(***************************************************************************)
(* State                                                                   *)
(***************************************************************************)
VARIABLES
  \* MailReceive
  mounted,          \* the load effect has run
  unhandled,        \* an exception has left a handler of MailReceive uncaught
  dataParam,        \* the value of the URL's d parameter
  decoded,          \* the load effect's local: what decodeDataFromURL returned
  letterTitle,
  decryptionItems,
  error,
  isLoaded,
  inflight,         \* handleDecryptItem calls suspended at an await, oldest first
  \* MailSend
  paragraphs,
  encryptedOutput,
  sendError,        \* MailSend's error
  isEncrypting,
  sealInput,        \* the paragraphs the running handleEncrypt call closed over
  tasks,            \* encryptedDataPromises: the per-paragraph tasks, by index
  completed,        \* the indexes of the fulfilled tasks, in completion order
  lateEdits,        \* edits made since a seal began or while its output is shown
  drawn,            \* how many values crypto.getRandomValues has produced
  \* the paste revision of MailReceive (it also has decryptionItems and error)
  pastedInput,      \* the text in the paste area
  uuids             \* how many ids crypto.randomUUID has produced

rvars == <<mounted, unhandled, dataParam, decoded, letterTitle, decryptionItems, error,
           isLoaded, inflight>>

svars == <<paragraphs, encryptedOutput, sendError, isEncrypting, sealInput, tasks,
           completed, lateEdits, drawn>>

lvars == <<pastedInput, uuids>>

vars == <<mounted, unhandled, dataParam, decoded, letterTitle, decryptionItems, error,
          isLoaded, inflight, paragraphs, encryptedOutput, sendError,
          isEncrypting, sealInput, tasks, completed, lateEdits, drawn,
          pastedInput, uuids>>

(***************************************************************************)
(* Inputs of the receiver                                                  *)
(***************************************************************************)
\* salts and nonces of the letters a receiver is sent
Salt1 == Bytes(<<1>>)
Salt2 == Bytes(<<2>>)
Iv1 == Bytes(<<7>>)
Iv2 == Bytes(<<8>>)
Salts == {Salt1, Salt2}
IVs == {Iv1, Iv2}

\* the texts of messages, passwords and hints
Messages == {TxtEmpty, TxtSpace, TxtM, TxtEM}
Passwords == {TxtEmpty, TxtSpace, TxtP, TxtQ}
Hints == {TxtEmpty, TxtH}

\* paragraphs as a sender composes them
Paragraph1 == [message |-> TxtM, password |-> TxtP, hint |-> TxtH]
Paragraph2 == [message |-> TxtEM, password |-> TxtQ, hint |-> TxtEmpty]

Sealed1 == EncryptParagraph(Paragraph1, Salt1, Iv1)
Sealed2 == EncryptParagraph(Paragraph2, Salt2, Iv2)

\* an EncryptedLetter as encryptParagraphs returns it
Letter(title, encryptedParagraphs) ==
  Obj([title |-> title,
       paragraphs |-> Arr([k \in 1..Len(encryptedParagraphs) |->
                             Obj(encryptedParagraphs[k])])])

\* letters of no, one and two paragraphs, with a title, an empty title, and
\* no title at all
Letters ==
  {Letter(Str(TxtT), <<>>),
   Letter(Str(TxtT), <<Sealed2>>),
   Letter(Str(TxtT), <<Sealed1, Sealed2>>),
   Letter(Str(TxtEmpty), <<Sealed1>>),
   Letter(Str(TxtEmpty), <<Sealed2, Sealed1>>),
   Letter(Undefined, <<>>),
   Letter(Undefined, <<Sealed1, Sealed2>>)}

\* JSON values that are not letters
Malformed ==
  {Null, Num(1), Str(TxtT), Arr(<<>>),
   Obj([title |-> Str(TxtT)]),
   Obj([paragraphs |-> Arr(<<>>)]),
   Obj([title |-> Str(TxtT), paragraphs |-> Str(TxtT)]),
   Obj([title |-> Str(TxtT), paragraphs |-> Obj([hint |-> Str(TxtH)])]),
   Obj([title |-> Str(TxtT), paragraphs |-> Arr(<<Num(1)>>)]),
   Obj([title |-> Str(TxtT), paragraphs |-> Arr(<<Null>>)]),
   Obj([title |-> Str(TxtT), paragraphs |-> Arr(<<Str(TxtH)>>)]),
   Obj([title |-> Str(TxtT), paragraphs |-> Arr(<<Obj(Sealed1), Num(1)>>)]),
   Obj([title |-> Str(TxtT),
        paragraphs |-> Arr(<<Obj([hint |-> Str(TxtH), salt |-> Sealed1.salt,
                                  iv |-> Sealed1.iv])>>)]),
   Obj([title |-> Str(TxtT),
        paragraphs |-> Arr(<<Obj([hint |-> Str(TxtH)]), Num(1)>>)])}

\* tokens that no encodeDataForURL call produced
BadTokens ==
  {[t |-> "bad", out |-> Null],
   [t |-> "bad", out |-> Str(TxtEmpty)],
   [t |-> "bad", out |-> Str(TxtQ)],
   [t |-> "bad", out |-> Thrown]}

Tokens ==
  {encodeDataForURL(l) : l \in Letters}
    \cup {encodeDataForURL(x) : x \in Malformed}
    \cup BadTokens

\* urlParams.get('d'): a token, or null when the URL has no d parameter
DataParams == Tokens \cup {Null}

\* what a receiver may type into a password field
PasswordInputs == {TxtEmpty, TxtSpace, TxtP, TxtQ}

(***************************************************************************)
(* MailReceive                                                             *)
(***************************************************************************)
PasswordRequired == "Password required."
IncorrectPassword == "Incorrect password or corrupted data."
InvalidLink == "Invalid or corrupted data in URL. Please check the link."

\* crypto.randomUUID() for the k-th item: distinct for distinct items
ItemId(k) == k

\* decoded.paragraphs.map(item => ({...item, id, passwordInput: '', ...}))
NewItems(paras) ==
  [k \in 1..Len(paras) |->
     [hint |-> paras[k].v["hint"],
      salt |-> paras[k].v["salt"],
      iv |-> paras[k].v["iv"],
      ciphertext |-> paras[k].v["ciphertext"],
      id |-> ItemId(k),
      passwordInput |-> TxtEmpty,
      decryptedMessage |-> TxtEmpty,
      error |-> "",
      isDecrypted |-> FALSE]]

\* prev.map(item => item.id === id ? {...item, passwordInput: value} : item)
\* prev.filter(...) in place of prev.map(...): the other items are dropped
SetPasswordInputFiltered(prev, id, value) ==
  LET kept == SelectSeq(prev, LAMBDA item : item.id = id)
  IN  [k \in 1..Len(kept) |-> [kept[k] EXCEPT !.passwordInput = value]]

SetPasswordInput(prev, id, value) ==
  [k \in 1..Len(prev) |->
     IF prev[k].id = id THEN [prev[k] EXCEPT !.passwordInput = value] ELSE prev[k]]

\* prev.map(item => item.id === id ? {...item, error: 'Password required.'} : item)
SetPasswordRequired(prev, id) ==
  [k \in 1..Len(prev) |->
     IF prev[k].id = id THEN [prev[k] EXCEPT !.error = PasswordRequired] ELSE prev[k]]

\* the state update after a successful decryptMessage
SetDecrypted(prev, id, decryptedText) ==
  [k \in 1..Len(prev) |->
     IF prev[k].id = id
     THEN [prev[k] EXCEPT !.decryptedMessage = decryptedText,
                          !.error = "",
                          !.isDecrypted = TRUE]
     ELSE prev[k]]

\* a catch branch that forgets to compare ids
SetFailedAll(prev, id) ==
  [k \in 1..Len(prev) |->
     [prev[k] EXCEPT !.error = IncorrectPassword,
                     !.decryptedMessage = TxtEmpty,
                     !.isDecrypted = FALSE]]

\* a catch branch that leaves decryptedMessage as it was
SetFailedKeepsMessage(prev, id) ==
  [k \in 1..Len(prev) |->
     IF prev[k].id = id
     THEN [prev[k] EXCEPT !.error = IncorrectPassword,
                          !.isDecrypted = FALSE]
     ELSE prev[k]]

\* the state update of the catch branch
SetFailed(prev, id) ==
  [k \in 1..Len(prev) |->
     IF prev[k].id = id
     THEN [prev[k] EXCEPT !.error = IncorrectPassword,
                          !.decryptedMessage = TxtEmpty,
                          !.isDecrypted = FALSE]
     ELSE prev[k]]

\* decryptionItems.find(item => item.id === id)
FindItem(items, id) == items[CHOOSE k \in 1..Len(items) : items[k].id = id]

RemoveAt(q, k) == SubSeq(q, 1, k - 1) \o SubSeq(q, k + 1, Len(q))

\* MailSend as constructed: one empty paragraph, nothing sealed
SenderConstructed ==
  /\ paragraphs = <<[message |-> TxtEmpty, password |-> TxtEmpty, hint |-> TxtEmpty]>>
  /\ encryptedOutput = Str(TxtEmpty)
  /\ sendError = ""
  /\ isEncrypting = FALSE
  /\ sealInput = <<>>
  /\ tasks = <<>>
  /\ completed = <<>>
  /\ lateEdits = 0
  /\ drawn = 0

\* the paste revision as constructed: nothing pasted, no id generated
PasteConstructed ==
  /\ pastedInput = Str(TxtEmpty)
  /\ uuids = 0

\* MailReceive before its load effect has run, on a URL without a d parameter
ReceiverConstructed ==
  /\ mounted = FALSE
  /\ unhandled = FALSE
  /\ dataParam = Null
  /\ decoded = Undefined
  /\ letterTitle = Str(TxtEmpty)
  /\ decryptionItems = <<>>
  /\ error = ""
  /\ isLoaded = FALSE
  /\ inflight = <<>>

RInit ==
  /\ SenderConstructed
  /\ PasteConstructed
  /\ mounted = FALSE
  /\ unhandled = FALSE
  /\ dataParam \in DataParams
  /\ decoded = Undefined
  /\ letterTitle = Str(TxtEmpty)
  /\ decryptionItems = <<>>
  /\ error = ""
  /\ isLoaded = FALSE
  /\ inflight = <<>>

\* the useEffect that loads the letter from the URL, run once after mount
LoadFromURL ==
  /\ ~mounted
  /\ mounted' = TRUE
  /\ IF Falsy(dataParam)
     THEN /\ isLoaded' = FALSE
          /\ UNCHANGED <<decoded, letterTitle, decryptionItems, error, unhandled>>
     ELSE /\ decoded' = decodeDataFromURL(dataParam)
          /\ IF decoded' = Thrown
             THEN \* nothing catches a fault of the decoder: the effect ends here
                  /\ unhandled' = TRUE
                  /\ UNCHANGED <<letterTitle, decryptionItems, error, isLoaded>>
             ELSE IF Falsy(decoded')
             THEN /\ error' = InvalidLink
                  /\ isLoaded' = FALSE
                  /\ UNCHANGED <<letterTitle, decryptionItems, unhandled>>
             ELSE /\ letterTitle' = decoded'.v["title"]
                  /\ decryptionItems' = NewItems(decoded'.v["paragraphs"].v)
                  /\ isLoaded' = TRUE
                  /\ UNCHANGED <<error, unhandled>>
  /\ UNCHANGED <<dataParam, inflight>>
  /\ UNCHANGED <<svars, lvars>>

\* a render that withdraws the controls of an item showing an error
UnsealControlsUntilError(item) == ~item.isDecrypted /\ item.error = ""

\* the render shows an item's password field and unseal button exactly
\* while the item is not decrypted
UnsealControlsRendered(item) == ~item.isDecrypted

handleDecryptionPasswordChange(id, value) ==
  /\ mounted
  /\ \E k \in 1..Len(decryptionItems) :
        decryptionItems[k].id = id /\ UnsealControlsRendered(decryptionItems[k])
  /\ decryptionItems' = SetPasswordInput(decryptionItems, id, value)
  /\ UNCHANGED <<mounted, unhandled, dataParam, decoded, letterTitle, error, isLoaded,
                 inflight>>
  /\ UNCHANGED <<svars, lvars>>

\* conversions placed before the try block: atob's exception leaves the
\* handler and no state update is made
OnBase64FaultUnhandled(id) ==
  /\ unhandled' = TRUE
  /\ UNCHANGED decryptionItems

\* base64ToBuffer is called inside the try block: when atob throws, the
\* catch branch runs
OnBase64Fault(id) ==
  /\ decryptionItems' = SetFailed(decryptionItems, id)
  /\ UNCHANGED unhandled

\* handleDecryptItem up to its first await, invoked from the unseal button
handleDecryptItem(id) ==
  /\ mounted
  /\ \E k \in 1..Len(decryptionItems) :
        decryptionItems[k].id = id /\ UnsealControlsRendered(decryptionItems[k])
  /\ LET itemToDecrypt == FindItem(decryptionItems, id)
         salt == base64ToBuffer(itemToDecrypt.salt)
         iv == base64ToBuffer(itemToDecrypt.iv)
         ciphertext == base64ToBuffer(itemToDecrypt.ciphertext)
     IN  IF IsBlank(itemToDecrypt.passwordInput)
         THEN /\ decryptionItems' = SetPasswordRequired(decryptionItems, id)
              /\ UNCHANGED <<inflight, unhandled>>
         ELSE IF salt = Thrown \/ iv = Thrown \/ ciphertext = Thrown
         THEN /\ OnBase64Fault(id)
              /\ UNCHANGED inflight
         ELSE /\ Len(inflight) < MaxInFlight
              /\ inflight' = Append(inflight,
                                    [id |-> id,
                                     passwordInput |-> itemToDecrypt.passwordInput,
                                     salt |-> salt, iv |-> iv,
                                     ciphertext |-> ciphertext,
                                     awaiting |-> "getKey",
                                     key |-> Null])
              /\ UNCHANGED <<decryptionItems, unhandled>>
  /\ UNCHANGED <<mounted, dataParam, decoded, letterTitle, error, isLoaded>>
  /\ UNCHANGED <<svars, lvars>>

\* await getKey(...) resolves; decryptMessage is called
KeyDerived(n) ==
  /\ n \in 1..Len(inflight)
  /\ inflight[n].awaiting = "getKey"
  /\ inflight' = [inflight EXCEPT
                    ![n].awaiting = "decryptMessage",
                    ![n].key = getKey(inflight[n].passwordInput, inflight[n].salt)]
  /\ UNCHANGED <<mounted, unhandled, dataParam, decoded, letterTitle, decryptionItems, error,
                 isLoaded>>
  /\ UNCHANGED <<svars, lvars>>

\* await decryptMessage(...) settles; the rest of handleDecryptItem runs
DecryptSettled(n) ==
  /\ n \in 1..Len(inflight)
  /\ inflight[n].awaiting = "decryptMessage"
  /\ LET decryptedText == decryptMessage(inflight[n].ciphertext, inflight[n].key,
                                         inflight[n].iv)
     IN  IF decryptedText = Thrown
         THEN decryptionItems' = SetFailed(decryptionItems, inflight[n].id)
         ELSE decryptionItems' =
                SetDecrypted(decryptionItems, inflight[n].id, decryptedText.v)
  /\ inflight' = RemoveAt(inflight, n)
  /\ UNCHANGED <<mounted, unhandled, dataParam, decoded, letterTitle, error, isLoaded>>
  /\ UNCHANGED <<svars, lvars>>

RNext ==
  \/ LoadFromURL
  \/ \E k \in 1..Len(decryptionItems), value \in PasswordInputs :
       handleDecryptionPasswordChange(decryptionItems[k].id, value)
  \/ \E k \in 1..Len(decryptionItems) : handleDecryptItem(decryptionItems[k].id)
  \/ \E n \in 1..MaxInFlight : KeyDerived(n)
  \/ \E n \in 1..MaxInFlight : DecryptSettled(n)

RSpec == RInit /\ [][RNext]_vars

\* Sealed1 as it may arrive after tampering: each wire field replaced by
\* another Base64 value or by text that is not Base64
NotBase64 == Str(TxtQ)

Tampered ==
  {[Sealed1 EXCEPT !.ciphertext = bufferToBase64(Bytes(<<9>>))],
   [Sealed1 EXCEPT !.salt = bufferToBase64(Salt2)],
   [Sealed1 EXCEPT !.iv = bufferToBase64(Iv2)],
   [Sealed1 EXCEPT !.ciphertext = NotBase64],
   [Sealed1 EXCEPT !.salt = NotBase64],
   [Sealed1 EXCEPT !.iv = NotBase64]}

\* links to one-paragraph letters, intact and tampered with, and to a letter
\* holding an intact paragraph next to one that is not Base64
TamperedParams ==
  {encodeDataForURL(Letter(Str(TxtT), <<e>>)) : e \in Tampered \cup {Sealed1}}
    \cup {encodeDataForURL(Letter(Str(TxtT),
                                  <<Sealed1, [Sealed1 EXCEPT !.salt = NotBase64]>>))}

\* MailReceive opened on such a link
TInit ==
  /\ SenderConstructed
  /\ PasteConstructed
  /\ mounted = FALSE
  /\ unhandled = FALSE
  /\ dataParam \in TamperedParams
  /\ decoded = Undefined
  /\ letterTitle = Str(TxtEmpty)
  /\ decryptionItems = <<>>
  /\ error = ""
  /\ isLoaded = FALSE
  /\ inflight = <<>>

TSpec == TInit /\ [][RNext]_vars

(***************************************************************************)
(* MailReceive, paste revision                                             *)
(***************************************************************************)
PleasePaste == "Please paste the encrypted data."
InvalidPaste == "Invalid or corrupt encrypted data. Please check the format."

\* an encrypted paragraph as MailSend's handleEncrypt writes it: the
\* ciphertext is in the field data
DataParagraph(e) ==
  Obj([hint |-> e.hint, salt |-> e.salt, iv |-> e.iv, data |-> e.ciphertext])

\* texts a receiver may paste: white space, text that is not JSON, the
\* sender's output for one and two paragraphs, and JSON of other shapes
PastedInputs ==
  {Str(TxtSpace), Str(TxtQ),
   JsonStringify(Arr(<<DataParagraph(Sealed1)>>)),
   JsonStringify(Arr(<<DataParagraph(Sealed2), DataParagraph(Sealed1)>>)),
   JsonStringify(Letter(Str(TxtT), <<Sealed1>>)),
   JsonStringify(Arr(<<Obj(Sealed1)>>)),
   JsonStringify(Arr(<<DataParagraph(Sealed1), Num(1)>>))}

\* what a receiver may type into a password field of the paste revision
PastePasswords == {TxtEmpty, TxtP, TxtQ}

\* !pastedInput.trim()
PastedBlank(text) == text.t = "str" /\ IsBlank(text.v)

\* 'hint' in item && 'data' in item && 'salt' in item && 'iv' in item
PastedItemHasFields(item) ==
  IF HasProp("hint", item) # "true" THEN HasProp("hint", item)
  ELSE IF HasProp("data", item) # "true" THEN HasProp("data", item)
  ELSE IF HasProp("salt", item) # "true" THEN HasProp("salt", item)
  ELSE HasProp("iv", item)

\* parsedData.every(...): stops at the first element that fails
RECURSIVE EveryPastedItemHasFields(_)
EveryPastedItemHasFields(a) ==
  IF a = <<>> THEN "true"
  ELSE IF PastedItemHasFields(Head(a)) # "true" THEN PastedItemHasFields(Head(a))
  ELSE EveryPastedItemHasFields(Tail(a))

\* the structure check of handleLoadForDecryption: "accept", or "throw"
\* (its own Error, or the TypeError of the in operator)
PastedStructure(parsedData) ==
  IF parsedData.t # "arr" THEN "throw"
  ELSE IF EveryPastedItemHasFields(parsedData.v) = "true" THEN "accept"
  ELSE "throw"

\* parsedData.map(item => ({...item, id: crypto.randomUUID(), ...})), the
\* generator having produced n ids before
PastedItems(parsedData, n) ==
  [k \in 1..Len(parsedData) |->
     [f \in DOMAIN parsedData[k].v
               \cup {"id", "passwordInput", "decryptedMessage", "error", "isDecrypted"} |->
        IF f = "id" THEN n + k
        ELSE IF f = "passwordInput" THEN TxtEmpty
        ELSE IF f = "decryptedMessage" THEN TxtEmpty
        ELSE IF f = "error" THEN ""
        ELSE IF f = "isDecrypted" THEN FALSE
        ELSE parsedData[k].v[f]]]

LInit == SenderConstructed /\ ReceiverConstructed /\ PasteConstructed

\* onChange of the paste area
setPastedInput(value) ==
  /\ pastedInput' = value
  /\ UNCHANGED <<uuids, rvars, svars>>

handleLoadForDecryption ==
  /\ IF PastedBlank(pastedInput)
     THEN /\ error' = PleasePaste
          /\ decryptionItems' = <<>>
          /\ UNCHANGED uuids
     ELSE LET parsedData == JsonParse(pastedInput)
          IN  IF parsedData = Thrown
              THEN /\ error' = InvalidPaste
                   /\ decryptionItems' = <<>>
                   /\ UNCHANGED uuids
              ELSE IF PastedStructure(parsedData) = "throw"
              THEN /\ error' = InvalidPaste
                   /\ decryptionItems' = <<>>
                   /\ UNCHANGED uuids
              ELSE /\ uuids + Len(parsedData.v) <= MaxUuids
                   /\ error' = ""
                   /\ decryptionItems' = PastedItems(parsedData.v, uuids)
                   /\ uuids' = uuids + Len(parsedData.v)
  /\ UNCHANGED <<mounted, unhandled, dataParam, decoded, letterTitle, isLoaded,
                 inflight>>
  /\ UNCHANGED <<pastedInput, svars>>

\* handleDecryptionPasswordChange of the paste revision
PastePasswordChange(id, value) ==
  /\ \E k \in 1..Len(decryptionItems) :
        decryptionItems[k].id = id /\ UnsealControlsRendered(decryptionItems[k])
  /\ decryptionItems' = SetPasswordInput(decryptionItems, id, value)
  /\ UNCHANGED <<mounted, unhandled, dataParam, decoded, letterTitle, error, isLoaded,
                 inflight>>
  /\ UNCHANGED <<svars, lvars>>

\* handleDecryptItem of the paste revision up to its first await; the two
\* awaits and what follows them are as in KeyDerived and DecryptSettled
PasteDecryptItem(id) ==
  /\ \E k \in 1..Len(decryptionItems) :
        decryptionItems[k].id = id /\ UnsealControlsRendered(decryptionItems[k])
  /\ LET itemToDecrypt == FindItem(decryptionItems, id)
         salt == base64ToBuffer(itemToDecrypt.salt)
         iv == base64ToBuffer(itemToDecrypt.iv)
         ciphertext == base64ToBuffer(itemToDecrypt.data)
     IN  IF IsBlank(itemToDecrypt.passwordInput)
         THEN /\ decryptionItems' = SetPasswordRequired(decryptionItems, id)
              /\ UNCHANGED <<inflight, unhandled>>
         ELSE IF salt = Thrown \/ iv = Thrown \/ ciphertext = Thrown
         THEN /\ decryptionItems' = SetFailed(decryptionItems, id)
              /\ UNCHANGED <<inflight, unhandled>>
         ELSE /\ Len(inflight) < MaxPasteInFlight
              /\ inflight' = Append(inflight,
                                    [id |-> id,
                                     passwordInput |-> itemToDecrypt.passwordInput,
                                     salt |-> salt, iv |-> iv,
                                     ciphertext |-> ciphertext,
                                     awaiting |-> "getKey",
                                     key |-> Null])
              /\ UNCHANGED <<decryptionItems, unhandled>>
  /\ UNCHANGED <<mounted, dataParam, decoded, letterTitle, error, isLoaded>>
  /\ UNCHANGED <<svars, lvars>>

LNext ==
  \/ \E value \in PastedInputs : setPastedInput(value)
  \/ handleLoadForDecryption
  \/ \E k \in 1..Len(decryptionItems), value \in PastePasswords :
       PastePasswordChange(decryptionItems[k].id, value)
  \/ \E k \in 1..Len(decryptionItems) : PasteDecryptItem(decryptionItems[k].id)
  \/ \E n \in 1..MaxInFlight : KeyDerived(n)
  \/ \E n \in 1..MaxInFlight : DecryptSettled(n)

LSpec == LInit /\ [][LNext]_vars

(***************************************************************************)
(* MailSend                                                                *)
(***************************************************************************)
ValidationMessage == "All message and password fields are required for each paragraph."
UnexpectedMessage == "An unexpected error occurred during encryption."

\* what a sender may type into the fields of a paragraph
SenderMessages == {TxtEmpty, TxtSpace, TxtEM}
SenderPasswords == {TxtEmpty, TxtSpace, TxtP}
SenderHints == {TxtEmpty, TxtH}

SInit == SenderConstructed /\ ReceiverConstructed /\ PasteConstructed

\* an edit is late when a seal is in flight or its output is shown
Late == isEncrypting \/ encryptedOutput # Str(TxtEmpty)

CountEdit ==
  /\ Late => lateEdits < MaxLateEdits
  /\ lateEdits' = IF Late THEN lateEdits + 1 ELSE lateEdits

\* handleParagraphChange on the k-th paragraph (its id names it)
handleParagraphChange(k, field, value) ==
  /\ k \in 1..Len(paragraphs)
  /\ paragraphs' = [paragraphs EXCEPT ![k][field] = value]
  /\ CountEdit
  /\ UNCHANGED <<encryptedOutput, sendError, isEncrypting, sealInput, tasks, completed,
                 drawn>>
  /\ UNCHANGED <<rvars, lvars>>

handleAddParagraph ==
  /\ Len(paragraphs) < MaxParagraphs
  /\ paragraphs' = Append(paragraphs,
                          [message |-> TxtEmpty, password |-> TxtEmpty,
                           hint |-> TxtEmpty])
  /\ CountEdit
  /\ UNCHANGED <<encryptedOutput, sendError, isEncrypting, sealInput, tasks, completed,
                 drawn>>
  /\ UNCHANGED <<rvars, lvars>>

\* handleRemoveParagraph on the k-th paragraph
handleRemoveParagraph(k) ==
  /\ k \in 1..Len(paragraphs)
  /\ paragraphs' = RemoveAt(paragraphs, k)
  /\ CountEdit
  /\ UNCHANGED <<encryptedOutput, sendError, isEncrypting, sealInput, tasks, completed,
                 drawn>>
  /\ UNCHANGED <<rvars, lvars>>

\* paragraphs.some(p => !p.message.trim() || !p.password.trim())
isInvalid(ps) ==
  \E k \in 1..Len(ps) : IsBlank(ps[k].message) \/ IsBlank(ps[k].password)

\* crypto.getRandomValues: the i-th value the generator produces.  The
\* generator is taken to be ideal: it never produces a value twice.
Random(i) == Bytes(<<i>>)

\* one salt drawn before the map and used by every task
TaskSaltShared(k, n) == Random(n + 1)

\* the salt of the k-th task, the generator having produced n values before
\* the seal: each task draws its own inside the map callback
TaskSalt(k, n) == Random(n + k)

\* a per-paragraph task as it starts: the salt is drawn and getKey is called
\* before the task first suspends
NewTask(salt) ==
  [awaiting |-> "getKey", salt |-> salt, key |-> Null, iv |-> Null, result |-> Null]

\* a seal button that stays enabled during a seal
SealButtonEnabled == FALSE

\* <Button onClick={handleEncrypt} disabled={isEncrypting}>
SealButtonDisabled == isEncrypting

\* handleEncrypt up to its await of Promise.all, invoked from the seal button
handleEncrypt ==
  /\ ~SealButtonDisabled
  /\ lateEdits' = 0
  /\ encryptedOutput' = Str(TxtEmpty)
  /\ completed' = <<>>
  /\ IF isInvalid(paragraphs)
     THEN /\ sendError' = ValidationMessage
          /\ sealInput' = <<>>
          /\ tasks' = <<>>
          /\ UNCHANGED <<isEncrypting, drawn>>
     ELSE /\ drawn + 2 * Len(paragraphs) <= MaxDraws
          /\ sendError' = ""
          /\ isEncrypting' = TRUE
          /\ sealInput' = paragraphs
          /\ tasks' = [k \in 1..Len(paragraphs) |-> NewTask(TaskSalt(k, drawn))]
          /\ drawn' = drawn + Len(paragraphs)
  /\ UNCHANGED paragraphs
  /\ UNCHANGED <<rvars, lvars>>

\* task k: await getKey(...) resolves; encryptMessage draws the iv and calls
\* crypto.subtle.encrypt
TaskKeyDerived(k) ==
  /\ isEncrypting
  /\ k \in 1..Len(tasks)
  /\ tasks[k].awaiting = "getKey"
  /\ tasks' = [tasks EXCEPT
                  ![k].awaiting = "encrypt",
                  ![k].key = getKey(sealInput[k].password, tasks[k].salt),
                  ![k].iv = Random(drawn + 1)]
  /\ drawn' = drawn + 1
  /\ UNCHANGED <<paragraphs, encryptedOutput, sendError, isEncrypting, sealInput,
                 completed, lateEdits>>
  /\ UNCHANGED <<rvars, lvars>>

\* task k: await encryptMessage(...) resolves; the task fulfils with its
\* EncryptedParagraph
TaskEncrypted(k) ==
  /\ isEncrypting
  /\ k \in 1..Len(tasks)
  /\ tasks[k].awaiting = "encrypt"
  /\ LET enc == encryptMessage(sealInput[k].message, tasks[k].key, tasks[k].iv)
     IN  tasks' = [tasks EXCEPT
                     ![k].awaiting = "done",
                     ![k].result = [hint |-> Str(sealInput[k].hint),
                                    salt |-> bufferToBase64(tasks[k].salt),
                                    iv |-> bufferToBase64(enc.iv),
                                    data |-> bufferToBase64(enc.ciphertext)]]
  /\ completed' = Append(completed, k)
  /\ UNCHANGED <<paragraphs, encryptedOutput, sendError, isEncrypting, sealInput,
                 lateEdits, drawn>>
  /\ UNCHANGED <<rvars, lvars>>

\* task k rejects (the platform refuses the operation): Promise.all rejects,
\* the catch and finally blocks of handleEncrypt run, and what the other
\* tasks go on to produce is dropped
TaskRejected(k) ==
  /\ isEncrypting
  /\ k \in 1..Len(tasks)
  /\ tasks[k].awaiting \in {"getKey", "encrypt"}
  /\ sendError' = UnexpectedMessage
  /\ isEncrypting' = FALSE
  /\ tasks' = <<>>
  /\ sealInput' = <<>>
  /\ completed' = <<>>
  /\ UNCHANGED <<paragraphs, encryptedOutput, lateEdits, drawn>>
  /\ UNCHANGED <<rvars, lvars>>

\* a collection of the results in the order the tasks completed
PromiseAllByCompletion(ts, order) == [k \in 1..Len(order) |-> ts[order[k]].result]

\* the value Promise.all fulfils with: the tasks' results by index, whatever
\* the order they completed in
PromiseAll(ts, order) == [k \in 1..Len(ts) |-> ts[k].result]

\* Promise.all fulfils once every task has
PromiseAllFulfilled(ts) == \A k \in 1..Len(ts) : ts[k].awaiting = "done"

\* await Promise.all(...) resolves; the rest of handleEncrypt runs
SealAssembled ==
  /\ isEncrypting
  /\ PromiseAllFulfilled(tasks)
  /\ LET encryptedData == PromiseAll(tasks, completed)
     IN  encryptedOutput' =
           JsonStringify(Arr([k \in 1..Len(encryptedData) |-> Obj(encryptedData[k])]))
  /\ isEncrypting' = FALSE
  /\ tasks' = <<>>
  /\ UNCHANGED <<paragraphs, sendError, sealInput, completed, lateEdits, drawn>>
  /\ UNCHANGED <<rvars, lvars>>

SNext ==
  \/ \E k \in 1..MaxParagraphs, value \in SenderMessages :
       handleParagraphChange(k, "message", value)
  \/ \E k \in 1..MaxParagraphs, value \in SenderPasswords :
       handleParagraphChange(k, "password", value)
  \/ \E k \in 1..MaxParagraphs, value \in SenderHints :
       handleParagraphChange(k, "hint", value)
  \/ handleAddParagraph
  \/ \E k \in 1..MaxParagraphs : handleRemoveParagraph(k)
  \/ handleEncrypt
  \/ \E k \in 1..MaxParagraphs : TaskKeyDerived(k)
  \/ \E k \in 1..MaxParagraphs : TaskEncrypted(k)
  \/ \E k \in 1..MaxParagraphs : TaskRejected(k)
  \/ SealAssembled

SSpec == SInit /\ [][SNext]_vars

\* a pending promise of the platform (deriveKey, encrypt) settles
PromiseSettles ==
  \E k \in 1..MaxParagraphs : TaskKeyDerived(k) \/ TaskEncrypted(k) \/ TaskRejected(k)

\* MailSend on an event loop that runs every continuation that is ready:
\* each operation of the platform settles, and the continuation of a
\* settled await is run
SLive == SSpec /\ WF_vars(PromiseSettles) /\ WF_vars(SealAssembled)

(***************************************************************************)
(* Properties of the receiver                                              *)
(***************************************************************************)
SenderParagraphs == {Paragraph1, Paragraph2}

\* the item carries the wire fields that sealing paragraph p with salt s and
\* nonce v produced
SealedFrom(item, p, s, v) ==
  LET e == EncryptParagraph(p, s, v)
  IN  /\ item.hint = e.hint
      /\ item.salt = e.salt
      /\ item.iv = e.iv
      /\ item.ciphertext = e.ciphertext

\* the suspended call n resumes after decryptMessage in this step
Settles(n) ==
  /\ n \in 1..Len(inflight)
  /\ inflight[n].awaiting = "decryptMessage"
  /\ inflight' = RemoveAt(inflight, n)

HasInFlight(id) == \E n \in 1..Len(inflight) : inflight[n].id = id

\* the states of an item
Decrypted(item) == item.isDecrypted
Failed(item) == ~item.isDecrypted /\ item.error = IncorrectPassword
Decrypting(item) == ~item.isDecrypted /\ HasInFlight(item.id)
Pending(item) ==
  ~item.isDecrypted /\ item.error # IncorrectPassword /\ ~HasInFlight(item.id)

SameItems == Len(decryptionItems') = Len(decryptionItems)

\* decrypt(encrypt(m, deriveKey(P, salt)), deriveKey(P, salt), nonce) = m
CipherRoundTrip ==
  \A m \in Messages, P \in Passwords, s \in Salts, v \in IVs :
    LET key == getKey(P, s)
        enc == encryptMessage(m, key, v)
    IN  decryptMessage(enc.ciphertext, getKey(P, s), enc.iv) = Str(m)

\* C1: decrypting under the key re-derived from the sealing password and
\* salt with the stored nonce returns the original message, and a decrypt
\* request that captured the sealing password of an item that is not
\* decrypted ends with the item decrypted, its decryptedMessage the original
\* message and its error cleared.
C1_DecryptionCorrect ==
  [][/\ ~mounted => CipherRoundTrip
     /\ \A n \in 1..Len(inflight) : \A k \in 1..Len(decryptionItems) :
          ( /\ Settles(n)
            /\ decryptionItems[k].id = inflight[n].id
            /\ ~decryptionItems[k].isDecrypted )
          => \A p \in SenderParagraphs, s \in Salts, v \in IVs :
               ( /\ SealedFrom(decryptionItems[k], p, s, v)
                 /\ inflight[n].passwordInput = p.password )
               => /\ SameItems
                  /\ decryptionItems'[k].isDecrypted
                  /\ decryptionItems'[k].decryptedMessage = p.message
                  /\ decryptionItems'[k].error = ""]_vars

\* a decrypted item shows the multi-byte message it was sealed from
C1_Witness ==
  \E k \in 1..Len(decryptionItems) :
    /\ SealedFrom(decryptionItems[k], Paragraph2, Salt2, Iv2)
    /\ decryptionItems[k].isDecrypted
    /\ decryptionItems[k].decryptedMessage = Paragraph2.message
    /\ decryptionItems[k].passwordInput = Paragraph2.password

\* the letters of the model whose title is present
TitledLetters == {l \in Letters : l.v["title"].t = "str"}

RequestOn(k, pw) ==
  /\ k \in 1..Len(decryptionItems)
  /\ decryptionItems[k].passwordInput = pw
  /\ handleDecryptItem(decryptionItems[k].id)

\* the request of this step suspends at getKey having captured password pw
StartsAttempt(k, pw) ==
  /\ Len(inflight') = Len(inflight) + 1
  /\ inflight'[Len(inflight')].id = decryptionItems[k].id
  /\ inflight'[Len(inflight')].passwordInput = pw
  /\ inflight'[Len(inflight')].awaiting = "getKey"
  /\ SubSeq(inflight', 1, Len(inflight)) = inflight

\* the suspended call n ends in AuthenticationFailure in this step
EndsFailed(k) ==
  /\ SameItems
  /\ ~decryptionItems'[k].isDecrypted
  /\ decryptionItems'[k].decryptedMessage = TxtEmpty
  /\ decryptionItems'[k].error = IncorrectPassword

\* pw is not the password item k was sealed with
WrongFor(k, pw) ==
  \E p \in SenderParagraphs, s \in Salts, v \in IVs :
    SealedFrom(decryptionItems[k], p, s, v) /\ pw # p.password

\* a request with password input pw made on an item sealed with another
\* password ends in AuthenticationFailure: it is not turned away, and when
\* it settles the item is Failed
WrongPasswordFails(pw) ==
  \A k \in 1..Len(decryptionItems) :
    /\ (RequestOn(k, pw) /\ WrongFor(k, pw)) => StartsAttempt(k, pw)
    /\ \A n \in 1..Len(inflight) :
         ( /\ Settles(n)
           /\ inflight[n].id = decryptionItems[k].id
           /\ inflight[n].passwordInput = pw
           /\ WrongFor(k, pw) )
         => EndsFailed(k)

\* C3 as claimed: every non-empty password other than the sealing password
\* ends in AuthenticationFailure.
C3_NonEmptyWrongPasswordFails ==
  [][\A pw \in PasswordInputs : pw # TxtEmpty => WrongPasswordFails(pw)]_vars

\* C3: a decrypt request with a password input that is non-empty after
\* trimming white space and differs from the sealing password ends in
\* AuthenticationFailure: the item is left Failed, not decrypted, with an
\* empty decryptedMessage and the generic error; it never ends Decrypted.
C3_WrongPasswordFails ==
  [][\A pw \in PasswordInputs : ~IsBlank(pw) => WrongPasswordFails(pw)]_vars

\* an item sealed with "p" is Failed after an attempt with "q"
C3_Witness ==
  \E k \in 1..Len(decryptionItems) :
    /\ SealedFrom(decryptionItems[k], Paragraph1, Salt1, Iv1)
    /\ decryptionItems[k].passwordInput = TxtQ
    /\ Failed(decryptionItems[k])
    /\ decryptionItems[k].decryptedMessage = TxtEmpty
    /\ ~HasInFlight(decryptionItems[k].id)

\* this step belongs to a decrypt request on item k: the request itself, or
\* one of its suspended calls resuming
RequestStepOn(k) ==
  \/ handleDecryptItem(decryptionItems[k].id)
  \/ \E n \in 1..Len(inflight) :
       inflight[n].id = decryptionItems[k].id /\ (KeyDerived(n) \/ Settles(n))

\* C5: a decrypt request on one item, whatever its outcome and however it
\* interleaves with requests on other items, leaves every field of every
\* other item unchanged.
C5_Independence ==
  [][\A k \in 1..Len(decryptionItems) :
       RequestStepOn(k)
         => /\ SameItems
            /\ \A j \in 1..Len(decryptionItems) :
                 j # k => decryptionItems'[j] = decryptionItems[j]]_vars

\* one item of a letter is Failed while the other one is Decrypted
C5_Witness ==
  /\ Len(decryptionItems) = 2
  /\ Failed(decryptionItems[1])
  /\ decryptionItems[1].passwordInput # TxtEmpty
  /\ Decrypted(decryptionItems[2])
  /\ decryptionItems[2].decryptedMessage # TxtEmpty

\* C6 as claimed: a Decrypted item stays Decrypted with the same
\* decryptedMessage, and no key derivation or decryption is started for it.
C6_DecryptedIsTerminal ==
  [][\A k \in 1..Len(decryptionItems) :
       decryptionItems[k].isDecrypted
         => /\ SameItems
            /\ decryptionItems'[k].isDecrypted
            /\ decryptionItems'[k].decryptedMessage =
                 decryptionItems[k].decryptedMessage
            /\ ~ \E n \in 1..Len(inflight) :
                   inflight[n].id = decryptionItems[k].id /\ KeyDerived(n)
            /\ ~ \E pw \in PasswordInputs : StartsAttempt(k, pw)]_vars

\* C7: a decrypt request on a Pending item whose password input is empty is
\* turned away at once: no call is suspended at getKey or decryptMessage,
\* isDecrypted and decryptedMessage keep their values, and the item is still
\* Pending, with the "Password required." error.
C7_EmptyPasswordRejected ==
  [][\A k \in 1..Len(decryptionItems) :
       (Pending(decryptionItems[k]) /\ RequestOn(k, TxtEmpty))
         => /\ inflight' = inflight
            /\ SameItems
            /\ decryptionItems'[k].isDecrypted = decryptionItems[k].isDecrypted
            /\ decryptionItems'[k].decryptedMessage =
                 decryptionItems[k].decryptedMessage
            /\ decryptionItems'[k].error = PasswordRequired
            /\ ~decryptionItems'[k].isDecrypted
            /\ decryptionItems'[k].error # IncorrectPassword
            /\ \A n \in 1..Len(inflight') :
                 inflight'[n].id # decryptionItems[k].id]_vars

\* an item with an empty password input has been asked to decrypt
C7_Witness ==
  \E k \in 1..Len(decryptionItems) :
    /\ decryptionItems[k].passwordInput = TxtEmpty
    /\ decryptionItems[k].error = PasswordRequired
    /\ Pending(decryptionItems[k])

\* the tokens that are not the encoding of a letter: not validly encoded,
\* decompressing to nothing, to text that does not parse, or to a value
\* of the wrong shape
CorruptTokens == BadTokens \cup {encodeDataForURL(x) : x \in Malformed}

\* C8: decodeDataFromURL never raises: for every corrupt token it returns
\* null, and the receiver then shows the link error, holds no decryption
\* items and is not marked loaded.
C8_CorruptTokenIsDecodeError ==
  /\ decoded # Thrown
  /\ ~mounted => \A token \in Tokens : decodeDataFromURL(token) # Thrown
  /\ (mounted /\ dataParam \in CorruptTokens)
       => /\ decoded = Null
          /\ error = InvalidLink
          /\ decryptionItems = <<>>
          /\ ~isLoaded

\* a token whose paragraphs array holds a non-object has been turned away
C8_Witness ==
  /\ mounted
  /\ dataParam = encodeDataForURL(
                   Obj([title |-> Str(TxtT),
                        paragraphs |-> Arr(<<Obj(Sealed1), Num(1)>>)]))
  /\ decoded = Null
  /\ error = InvalidLink

\* pw is the password item k was sealed with
CorrectFor(k, pw) ==
  \E p \in SenderParagraphs, s \in Salts, v \in IVs :
    SealedFrom(decryptionItems[k], p, s, v) /\ pw = p.password

\* a further request on a Failed item is possible
FailedCanRetry ==
  \A k \in 1..Len(decryptionItems) :
    (Failed(decryptionItems[k]) /\ Len(inflight) < MaxInFlight)
      => ENABLED handleDecryptItem(decryptionItems[k].id)

\* a request with password pw on a Failed item starts a new attempt, and an
\* attempt with the sealing password that settles on a Failed item leaves it
\* Decrypted
RetryFromFailed(pw) ==
  \A k \in 1..Len(decryptionItems) :
    Failed(decryptionItems[k])
      => /\ RequestOn(k, pw) => StartsAttempt(k, pw)
         /\ \A n \in 1..Len(inflight) :
              ( /\ Settles(n)
                /\ inflight[n].id = decryptionItems[k].id
                /\ inflight[n].passwordInput = pw
                /\ CorrectFor(k, pw) )
              => /\ SameItems
                 /\ decryptionItems'[k].isDecrypted
                 /\ decryptionItems'[k].error = ""

\* C9 as claimed: from Failed, a request with any non-empty password starts
\* a new attempt.
C9_NonEmptyRetryAccepted ==
  []FailedCanRetry
    /\ [][\A pw \in PasswordInputs : pw # TxtEmpty => RetryFromFailed(pw)]_vars

\* C9: failure is not sticky: from Failed a further decrypt request is always
\* possible, one whose password input is non-empty after trimming white
\* space starts a new attempt, and an attempt with the sealing password
\* leaves the item Decrypted however many attempts failed before.
C9_FailureNotSticky ==
  []FailedCanRetry
    /\ [][\A pw \in PasswordInputs : ~IsBlank(pw) => RetryFromFailed(pw)]_vars

\* a Failed item has a new attempt with its sealing password in flight
C9_Witness ==
  \E k \in 1..Len(decryptionItems) : \E n \in 1..Len(inflight) :
    /\ Failed(decryptionItems[k])
    /\ inflight[n].id = decryptionItems[k].id
    /\ CorrectFor(k, inflight[n].passwordInput)
    /\ inflight[n].awaiting = "decryptMessage"

(***************************************************************************)
(* Properties of the sender                                                *)
(***************************************************************************)
\* the empty and the white-space-only text
BlankTexts == {TxtEmpty, TxtSpace}

HasBlankField(ps) ==
  \E k \in 1..Len(ps) : ps[k].message \in BlankTexts \/ ps[k].password \in BlankTexts

\* this step starts cryptographic work: a task is created (salt drawn, getKey
\* called) or a task moves on to encryptMessage
StartsCryptoWork ==
  \/ tasks' # <<>> /\ tasks' # tasks
  \/ drawn' # drawn

IsEncryptionOf(entry, p) ==
  /\ entry.t = "obj"
  /\ DOMAIN entry.v = {"hint", "salt", "iv", "data"}
  /\ entry.v["hint"] = Str(p.hint)
  /\ decryptMessage(base64ToBuffer(entry.v["data"]),
                    getKey(p.password, base64ToBuffer(entry.v["salt"])),
                    base64ToBuffer(entry.v["iv"])) = Str(p.message)

\* the output shown is the envelope of the input the seal closed over
OutputMatchesInput ==
  encryptedOutput # Str(TxtEmpty)
    => /\ encryptedOutput.t = "json"
       /\ encryptedOutput.doc.t = "arr"
       /\ Len(encryptedOutput.doc.v) = Len(sealInput)
       /\ \A k \in 1..Len(sealInput) :
            IsEncryptionOf(encryptedOutput.doc.v[k], sealInput[k])

\* C10: a successful seal of n paragraphs assembles its envelope only after
\* all n per-paragraph encryptions have completed, and the envelope holds
\* exactly n encrypted paragraphs, the k-th being the encryption of the k-th
\* input paragraph with its hint, in whatever order the encryptions complete.
C10_OrderedFanIn ==
  []OutputMatchesInput
    /\ [][/\ (handleEncrypt /\ isEncrypting')
              => (sealInput' = paragraphs /\ Len(tasks') = Len(paragraphs))
         /\ encryptedOutput' # encryptedOutput /\ encryptedOutput' # Str(TxtEmpty)
              => /\ isEncrypting
                 /\ Len(tasks) = Len(sealInput)
                 /\ Len(completed) = Len(sealInput)
                 /\ \A k \in 1..Len(tasks) : tasks[k].awaiting = "done"
                 /\ sealInput' = sealInput]_vars

\* two different paragraphs have been sealed, the second one's encryption
\* having completed first
C10_Witness ==
  /\ encryptedOutput # Str(TxtEmpty)
  /\ ~isEncrypting
  /\ Len(sealInput) = 2
  /\ sealInput[1] # sealInput[2]
  /\ completed = <<2, 1>>
  /\ Len(encryptedOutput.doc.v) = 2

(***************************************************************************)
(* Properties of concurrent requests on one item                           *)
(***************************************************************************)
\* a request for the same item, issued after call n, is in flight
NewerInFlight(n) ==
  \E m \in (n + 1)..Len(inflight) : inflight[m].id = inflight[n].id

\* C13 as claimed: the result of a decrypt request that a newer request for
\* the same item has superseded is discarded: when it settles while the
\* newer request is in flight it leaves the item as it is, so that the item
\* ends with the outcome of the newer request.
C13_OlderResultDiscarded ==
  [][\A n \in 1..Len(inflight) :
       (Settles(n) /\ NewerInFlight(n)) => decryptionItems' = decryptionItems]_vars

(***************************************************************************)
(* Properties of failed attempts                                           *)
(***************************************************************************)
WireFields(item) ==
  [hint |-> item.hint, salt |-> item.salt, iv |-> item.iv,
   ciphertext |-> item.ciphertext]

\* why an attempt with password pw on the item cannot succeed: a field that
\* is not Base64, a field that was tampered with, or a wrong password
Cause(item, pw) ==
  IF \E f \in {item.salt, item.iv, item.ciphertext} : f = NotBase64
  THEN "not Base64"
  ELSE IF WireFields(item) # Sealed1 THEN "tampered"
  ELSE IF pw # Paragraph1.password THEN "wrong password"
  ELSE "none"

\* the one state a failed attempt leaves an item in
FailedFrom(item) ==
  [item EXCEPT !.error = IncorrectPassword,
               !.decryptedMessage = TxtEmpty,
               !.isDecrypted = FALSE]

\* a request on item k with a password that is not blank ends in this
\* step: at once, or when its suspended call n settles
AttemptEnds(k, pw) ==
  \/ /\ RequestOn(k, pw)
     /\ ~IsBlank(pw)
     /\ inflight' = inflight
  \/ \E n \in 1..Len(inflight) :
       /\ Settles(n)
       /\ inflight[n].id = decryptionItems[k].id
       /\ inflight[n].passwordInput = pw

\* C14: a decrypt attempt that fails leaves the item in the same state
\* whatever the cause: after a wrong password, after tampering with the
\* ciphertext, salt or nonce, and with a field that is not valid Base64 the
\* item holds the one generic error, an empty decryptedMessage and
\* isDecrypted = false, every other field as before; each of them is
\* handled: no exception leaves a handler uncaught (a request whose fields
\* are not Base64 ends at once, with the same update).
C14_FailuresIndistinguishable ==
  []~unhandled
    /\ [][\A k \in 1..Len(decryptionItems) : \A pw \in PasswordInputs :
       AttemptEnds(k, pw)
         => /\ Cause(decryptionItems[k], pw) # "none"
                 => /\ SameItems
                    /\ decryptionItems'[k] = FailedFrom(decryptionItems[k])
            /\ Cause(decryptionItems[k], pw) = "not Base64"
                    => inflight' = inflight]_vars

\* of two paragraphs opened with the same password, the intact one is
\* decrypted and the one whose salt is not Base64 is Failed
C14_Witness ==
  /\ Len(decryptionItems) = 2
  /\ decryptionItems[1].isDecrypted
  /\ decryptionItems[2].salt = NotBase64
  /\ decryptionItems[2].passwordInput = Paragraph1.password
  /\ decryptionItems[2] = FailedFrom(decryptionItems[2])
  /\ inflight = <<>>

(***************************************************************************)
(* Properties of the structure checks                                      *)
(***************************************************************************)
\* x is an object holding every one of the fields
HasFields(x, fields) == x.t = "obj" /\ fields \subseteq DOMAIN x.v

\* an object with a title and a paragraphs array whose every element is an
\* object with hint, salt, iv and ciphertext
WellFormedLetter(c) ==
  /\ HasFields(c, {"title", "paragraphs"})
  /\ c.v["paragraphs"].t = "arr"
  /\ \A k \in 1..Len(c.v["paragraphs"].v) :
       HasFields(c.v["paragraphs"].v[k], {"hint", "salt", "iv", "ciphertext"})

\* an array whose every element is an object with hint, data, salt and iv
WellFormedPaste(c) ==
  /\ c.t = "arr"
  /\ \A k \in 1..Len(c.v) : HasFields(c.v[k], {"hint", "data", "salt", "iv"})

\* parsed values a structure check may be handed: letters, values of other
\* shapes, a letter whose fields hold values of other types next to a field
\* of its own, and the sender's bare arrays
Candidates ==
  {JsonDoc(l) : l \in Letters} \cup Malformed
    \cup {Obj([title |-> Null,
               paragraphs |-> Arr(<<Obj([hint |-> Null, salt |-> Num(1),
                                          iv |-> Str(TxtQ), ciphertext |-> Arr(<<>>),
                                          data |-> Sealed1.ciphertext])>>)]),
          Arr(<<DataParagraph(Sealed1)>>),
          Arr(<<Obj(Sealed1), Obj(Sealed2)>>)}

\* validateStructure accepts exactly the well-formed letters, and the decoder
\* hands an accepted candidate on as it is and turns every other one into null
TransportCheckExact ==
  \A c \in Candidates :
    /\ ValidateStructure(c) = "accept" <=> WellFormedLetter(c)
    /\ decodeDataFromURL(encodeDataForURL(c)) = (IF WellFormedLetter(c) THEN c ELSE Null)

\* this step is a load of pasted text that parses as JSON
LoadsPastedJson == handleLoadForDecryption /\ JsonParse(pastedInput) # Thrown

\* the load of this step took the pasted value: one item per element, no error
PasteAccepted ==
  /\ error' = ""
  /\ Len(decryptionItems') = Len(JsonParse(pastedInput).v)

\* the load of this step turned the pasted value away
PasteRejected == error' = InvalidPaste /\ decryptionItems' = <<>>

\* C11 as claimed: validateStructure accepts exactly the well-formed letters,
\* and the same check gates the paste load as gates the transport load.
C11_SameCheckOnEveryPath ==
  []TransportCheckExact
    /\ [][LoadsPastedJson
            => IF ValidateStructure(JsonParse(pastedInput)) = "accept"
               THEN PasteAccepted ELSE PasteRejected]_vars

\* C11: validateStructure accepts a candidate if and only if it is an object
\* with a title field and a paragraphs array whose every element is an object
\* with hint, salt, iv and ciphertext present; any other candidate is
\* rejected, not coerced, and this check gates the transport load.  The
\* paste load has a check of its own: it accepts exactly the arrays whose
\* every element is an object with hint, data, salt and iv present.
C11_StructureChecks ==
  []TransportCheckExact
    /\ [][LoadsPastedJson
            => IF WellFormedPaste(JsonParse(pastedInput))
               THEN PasteAccepted ELSE PasteRejected]_vars

\* the sender's one-paragraph array has been pasted and loaded, a value the
\* transport check turns away
C11_Witness ==
  /\ pastedInput = JsonStringify(Arr(<<DataParagraph(Sealed1)>>))
  /\ ValidateStructure(JsonParse(pastedInput)) = "reject"
  /\ Len(decryptionItems) = 1
  /\ decryptionItems[1].data = Sealed1.ciphertext
  /\ error = ""

(***************************************************************************)
(* Properties of the sender's randomness                                   *)
(***************************************************************************)
\* the values the generator has produced so far
Drawn == {Random(j) : j \in 1..drawn}

\* the salts and nonces the tasks of the running seal hold, as pairs of the
\* task's index and the kind of value
Holdings(ts) ==
  {<<k, "salt">> : k \in 1..Len(ts)}
    \cup {<<k, "iv">> : k \in {j \in 1..Len(ts) : ts[j].iv # Null}}

Held(ts, h) == IF h[2] = "salt" THEN ts[h[1]].salt ELSE ts[h[1]].iv

\* task k works with a key derived from its own salt and its paragraph's
\* password, and what it returns was encrypted under that key and its own
\* nonce and carries that salt and nonce
OwnKeyAndNonce(k) ==
  /\ tasks[k].key # Null
       => tasks[k].key = getKey(sealInput[k].password, tasks[k].salt)
  /\ tasks[k].result # Null
       => /\ base64ToBuffer(tasks[k].result.salt) = tasks[k].salt
          /\ base64ToBuffer(tasks[k].result.iv) = tasks[k].iv
          /\ base64ToBuffer(tasks[k].result.data).key = tasks[k].key
          /\ base64ToBuffer(tasks[k].result.data).iv = tasks[k].iv

\* the salts, nonces and keys of the running seal are all different, and
\* every salt and nonce is a value the generator produced
NothingShared ==
  /\ \A h \in Holdings(tasks) : Held(tasks, h) \in Drawn
  /\ \A h1, h2 \in Holdings(tasks) : h1 # h2 => Held(tasks, h1) # Held(tasks, h2)
  /\ \A k \in 1..Len(tasks) : OwnKeyAndNonce(k)
  /\ \A k1, k2 \in 1..Len(tasks) :
       (k1 # k2 /\ tasks[k1].key # Null /\ tasks[k2].key # Null)
         => tasks[k1].key # tasks[k2].key

\* a salt or nonce that a task holds after this step and no task held before
\* it is a value the generator had never produced: no encryption of this or
\* of an earlier seal used it
NewlyHeldIsFresh ==
  \A h \in Holdings(tasks') :
    (h \notin Holdings(tasks) \/ tasks = <<>>) => Held(tasks', h) \notin Drawn

\* C12: every encryption of a paragraph uses a salt and a nonce of its own,
\* drawn from the generator by the task itself and never produced before, in
\* this seal or an earlier one, and a key derived from that salt: no two
\* paragraphs share a salt, a nonce or a key, also when their passwords are
\* the same, so no (salt, nonce, ciphertext) is produced twice.
C12_FreshSaltAndNonce ==
  []NothingShared /\ [][NewlyHeldIsFresh]_vars

\* a one-paragraph seal is under way after an earlier one-paragraph seal
\* of the same password: the task of the first seal and the task of this
\* one each drew a salt and a nonce, and this task holds its result
C12_Witness ==
  /\ isEncrypting
  /\ drawn = 4
  /\ Len(tasks) = 1
  /\ tasks[1].result # Null
  /\ sealInput[1].password = TxtP
  /\ sealInput[1].message = TxtEM

\* ---------------------------------------------------------------------
\* Properties of the items of a loaded letter (paste revision)
\* ---------------------------------------------------------------------

\* the fields of an item that receive no update after the load: the
\* paragraph's own fields and the id
ReceiverFields == {"passwordInput", "decryptedMessage", "error", "isDecrypted"}

LoadedPart(item) == [f \in DOMAIN item \ ReceiverFields |-> item[f]]

LoadedParts(items) == [k \in 1..Len(items) |-> LoadedPart(items[k])]

LetterLoaded == decryptionItems # <<>>

\* this step removes, adds and reorders no item and changes no id, hint,
\* salt, nonce or ciphertext
ItemsKept == LoadedParts(decryptionItems') = LoadedParts(decryptionItems)

\* the load of this step was given what the structure check accepts
LoadAccepts ==
  /\ handleLoadForDecryption
  /\ ~PastedBlank(pastedInput)
  /\ JsonParse(pastedInput) # Thrown
  /\ PastedStructure(JsonParse(pastedInput)) = "accept"

\* after this step there is one item per pasted paragraph, in the order of
\* the paste, each holding the paragraph's fields and an id of its own
OnePerParagraph ==
  LET parsedData == JsonParse(pastedInput).v
  IN  /\ Len(decryptionItems') = Len(parsedData)
      /\ \A k \in 1..Len(parsedData) :
            \A f \in DOMAIN parsedData[k].v :
              decryptionItems'[k][f] = parsedData[k].v[f]
      /\ \A j, k \in 1..Len(parsedData) :
            decryptionItems'[j].id = decryptionItems'[k].id => j = k

\* C15 as claimed: once a letter is loaded, no later operation, a further
\* load attempt included, removes, adds or reorders items or changes an
\* item's id, hint, salt, nonce or ciphertext.
C15_ItemsFixedOnceLoaded == [][LetterLoaded => ItemsKept]_vars

\* C15: a load that is accepted leaves exactly one item per paragraph, in
\* the paragraphs' order, and from then on a password edit, a decrypt
\* request and a decrypt completion remove, add and reorder no item and
\* change no item's id, hint, salt, nonce or ciphertext; only another load
\* attempt replaces or discards the items.
C15_ItemsFixedBetweenLoads ==
  [][/\ LoadAccepts => OnePerParagraph
     /\ (LetterLoaded /\ ~handleLoadForDecryption) => ItemsKept]_vars

\* a two-paragraph letter, loaded in the order pasted; its second item was
\* decrypted and its first was refused
C15_Witness ==
  /\ Len(decryptionItems) = 2
  /\ LoadedPart(decryptionItems[1]).data = Sealed2.ciphertext
  /\ LoadedPart(decryptionItems[2]).data = Sealed1.ciphertext
  /\ decryptionItems[1].error = IncorrectPassword
  /\ decryptionItems[2].isDecrypted
  /\ inflight = <<>>

\* ---------------------------------------------------------------------
\* Properties of the plaintext an item holds
\* ---------------------------------------------------------------------

HoldsPlaintext(item) == item.decryptedMessage # TxtEmpty

\* C16: in every reachable state of the receiver, an item with
\* isDecrypted = false has an empty decryptedMessage: an item holds
\* plaintext only while it is marked decrypted.
C16_PlaintextOnlyWhileDecrypted ==
  \A k \in 1..Len(decryptionItems) :
    HoldsPlaintext(decryptionItems[k]) => decryptionItems[k].isDecrypted

\* an attempt on the item has failed and every request has completed: the
\* item is not marked decrypted and holds no plaintext, although the right
\* password is in its field (as after a failure that arrives late)
C16_Witness ==
  /\ Len(decryptionItems) = 1
  /\ decryptionItems[1].passwordInput = Paragraph1.password
  /\ decryptionItems[1].ciphertext = Sealed1.ciphertext
  /\ decryptionItems[1].error = IncorrectPassword
  /\ ~decryptionItems[1].isDecrypted
  /\ ~HoldsPlaintext(decryptionItems[1])
  /\ inflight = <<>>

\* ---------------------------------------------------------------------
\* Properties of the sender's seal attempts
\* ---------------------------------------------------------------------

OutputShown == encryptedOutput # Str(TxtEmpty)

ErrorShown == sendError # ""

ExactlyOneShown == OutputShown # ErrorShown

\* the seal in flight after this step is the one in flight before it: the
\* same paragraphs and the same tasks, known by their salts
SameSeal ==
  /\ sealInput' = sealInput
  /\ Len(tasks') = Len(tasks)
  /\ \A k \in 1..Len(tasks) : tasks'[k].salt = tasks[k].salt

\* C17: on the sender at most one seal is in flight (while isEncrypting no
\* new one starts: the seal in flight stays the same one until it ends);
\* every seal in flight eventually returns isEncrypting to false, by
\* success or by failure; encryptedOutput and error are never both
\* non-empty; and the sender is idle with neither shown only before its
\* first attempt: every attempt that ends leaves exactly one of them
\* non-empty, and nothing but a new attempt changes that.
C17_SealLifecycle ==
  /\ [](~(OutputShown /\ ErrorShown))
  /\ [][(isEncrypting /\ isEncrypting') => SameSeal]_vars
  /\ [][(~isEncrypting' /\ ~ExactlyOneShown')
          => (~isEncrypting /\ ~ExactlyOneShown /\ ~handleEncrypt)]_vars
  /\ (isEncrypting ~> ~isEncrypting)

\* a second seal was started after the first had ended, and a rejection
\* ended it: the sender is idle again and shows the error alone
C17_Witness ==
  /\ ~isEncrypting
  /\ sendError = UnexpectedMessage
  /\ ~OutputShown
  /\ drawn >= 3

====
